---- MODULE Spec2Model ----
(***************************************************************************)
(* ZoomToApp: the command line entry point, the pipeline orchestrator and  *)
(* the six stages it runs in order (transcribe, story generation, code     *)
(* generation, tests, deployment, report).                                 *)
(*                                                                         *)
(* Text is modelled as a sequence of pieces (characters for file contents, *)
(* literal fragments for formatted strings), a Python dict as a function   *)
(* whose DOMAIN is the set of its keys, a Python list as a sequence.       *)
(***************************************************************************)
EXTENDS Integers, Sequences, FiniteSets, TLC

\* ------------------------------------------------------------- bounds
MaxLen == 2        \* longest file content / speech text, in characters
MaxStories == 7    \* longest story list the language model returns

\* ------------------------------------------------------------- values
Chars == {" ", "a"}
Whitespace == {" "}

Texts == UNION {[1..n -> Chars] : n \in 0..MaxLen}

ProjectNames == {"todo-app", "demo-todo-app"}

EmptyDict == [k \in {} |-> 0]

Sides == {"frontend", "backend"}

\* ------------------------------------------------------------- stage 1
RECURSIVE lstrip(_)
lstrip(s) ==
  IF s # <<>> /\ Head(s) \in Whitespace THEN lstrip(Tail(s)) ELSE s

RECURSIVE rstrip(_)
rstrip(s) ==
  IF s # <<>> /\ s[Len(s)] \in Whitespace
  THEN rstrip(SubSeq(s, 1, Len(s) - 1))
  ELSE s

\* strip() that forgets the trailing whitespace
strip_leading_only(s) == lstrip(s)

\* str.strip()
strip(s) == rstrip(lstrip(s))

\* The sample transcript substituted inside the try block (indented by 16).
SampleTranscript ==
  <<"\n", "                ", "We need to build a todo list application.", "\n">>

\* The sample transcript returned by the except block (indented by 12).
FallbackTranscript ==
  <<"\n", "            ", "We need to build a todo list application.", "\n">>

\* The outcomes of the speech-to-text backend on an audio file: conversion
\* or transcription raises, or result['text'] is some text.
SpeechOutcomes == {[raised |-> TRUE, text |-> <<>>]}
                  \cup {[raised |-> FALSE, text |-> t] : t \in Texts}

\* _load_model: self.model after the call, or "raise" when load_model raises.
\* whisper: the import succeeded; load_ok: whisper.load_model returns.
load_model(model, whisper, load_ok) ==
  IF model = "None" /\ whisper
  THEN (IF load_ok THEN "model" ELSE "raise")
  ELSE IF ~whisper THEN "None" ELSE model

\* transcribe without the test for an empty transcript
or_sample_keeps_empty(transcript) == transcript

\* if not transcript: substitute the sample
or_sample(transcript) ==
  IF transcript = <<>> THEN SampleTranscript ELSE transcript

\* the except block of transcribe
transcribe_failed(model) ==
  [transcript |-> FallbackTranscript, model |-> model,
   log |-> {"Transcription failed"}]

transcribe_done(transcript, model) ==
  [transcript |-> or_sample(transcript), model |-> model,
   log |-> {"Transcription completed"}]

\* AudioTranscriber.transcribe: the transcript returned, self.model after the
\* call and the messages logged.
transcribe(model0, is_txt, content, whisper, load_ok, read_ok, speech) ==
  LET model == load_model(model0, whisper, load_ok) IN
  IF model = "raise" THEN transcribe_failed(model0)
  ELSE IF is_txt
       THEN IF read_ok THEN transcribe_done(strip(content), model)
            ELSE transcribe_failed(model)
  ELSE IF model # "None"
       THEN IF speech.raised THEN transcribe_failed(model)
            ELSE transcribe_done(strip(speech.text), model)
  ELSE transcribe_done(<<>>, model)

\* ------------------------------------------------------------- stage 2
\* A JSON value is tagged with its Python type: t = "list" (v the items),
\* "str" (v the characters) or "null" (None, which has no len()).
List(items) == [t |-> "list", v |-> items]

Story == "As a user, I want to..."

\* _get_fallback_stories
FallbackStories ==
  List(<<"As a user, I want to create new todo tasks so that I can track what I need to do",
         "As a user, I want to view all my todo tasks so that I can see my current workload",
         "As a user, I want to mark tasks as completed so that I can track my progress",
         "As a user, I want to delete tasks so that I can remove items I no longer need",
         "As a user, I want to edit existing tasks so that I can update task details",
         "As a user, I want a clean interface so that the app is easy to use">>)

\* _get_fallback_architecture
FallbackArchitecture == "## System Architecture ... Backend: Railway/Heroku"

ArchTexts == {"React frontend, Express.js backend, SQLite database"}

JsonValues ==
  {List([i \in 1..n |-> Story]) : n \in 0..MaxStories}
  \cup {[t |-> "str", v |-> <<"x">>], [t |-> "null", v |-> <<>>]}

\* The text of a response, by what json.loads makes of it: k = "malformed"
\* (not JSON), "nonobject" (JSON, but no object: an array, a number, a
\* string), "object" (has: the key 'stories' is present, with value stories).
Contents ==
  {[k |-> "malformed", has |-> FALSE, stories |-> List(<<>>)],
   [k |-> "nonobject", has |-> FALSE, stories |-> List(<<>>)],
   [k |-> "object", has |-> FALSE, stories |-> List(<<>>)]}
  \cup {[k |-> "object", has |-> TRUE, stories |-> j] : j \in JsonValues}

\* self.llm.invoke(stories_prompt...): raises, or returns a response
StoriesResponses ==
  {[raised |-> TRUE, content |-> [k |-> "malformed", has |-> FALSE, stories |-> List(<<>>)]]}
  \cup {[raised |-> FALSE, content |-> c] : c \in Contents}

ArchResponses ==
  {[raised |-> TRUE, content |-> ""]}
  \cup {[raised |-> FALSE, content |-> c] : c \in ArchTexts}

\* json.loads: "JSONDecodeError", or the parsed value
json_loads(content) ==
  IF content.k = "malformed" THEN "JSONDecodeError" ELSE "ok"

\* stories_data.get('stories', [])
get_stories(content) ==
  IF content.has THEN content.stories ELSE List(<<>>)

\* an except block that falls back for the stories only
stories_failed_keeps_architecture(calls) ==
  [stories |-> FallbackStories, architecture |-> "",
   calls |-> calls, log |-> {"Story generation failed"}]

\* the outer except block of generate_stories
stories_failed(calls) ==
  [stories |-> FallbackStories, architecture |-> FallbackArchitecture,
   calls |-> calls, log |-> {"Story generation failed"}]

\* the try block of generate_stories once both responses are there
parse_stories(content, arch) ==
  IF json_loads(content) = "JSONDecodeError"
  THEN [stories |-> FallbackStories, architecture |-> arch, calls |-> 2,
        log |-> {"Failed to parse stories JSON", "Generated user stories"}]
  ELSE IF content.k # "object"
  THEN stories_failed(2)        \* AttributeError: no .get on a non-dict
  ELSE IF get_stories(content).t = "null"
  THEN stories_failed(2)        \* TypeError: len() of None
  ELSE [stories |-> get_stories(content), architecture |-> arch,
        calls |-> 2, log |-> {"Generated user stories"}]

\* generate_stories with one try block per prompt: a prompt that raises costs
\* only its own field
generate_stories_independent(stories_response, arch_response) ==
  LET parsed == parse_stories(stories_response.content, arch_response.content)
      stories == IF stories_response.raised THEN FallbackStories
                 ELSE parsed.stories
      architecture == IF arch_response.raised THEN FallbackArchitecture
                      ELSE arch_response.content
  IN [stories |-> stories, architecture |-> architecture, calls |-> 2,
      log |-> IF stories_response.raised \/ arch_response.raised
              THEN {"Story generation failed"} ELSE parsed.log]

\* StoryGenerator.generate_stories: the dictionary returned, the number of
\* prompts issued and the messages logged.
generate_stories(stories_response, arch_response) ==
  IF stories_response.raised THEN stories_failed(1)
  ELSE IF arch_response.raised THEN stories_failed(2)
  ELSE parse_stories(stories_response.content, arch_response.content)

\* ------------------------------------------------------------- stage 3
GeneratedFiles == {"frontend/src/App.js", "backend/server.js"}

\* CodeGenerator.generate_app: the mapping of the generated files
generate_app(user_stories, name, output_dir) ==
  [f \in GeneratedFiles |-> <<output_dir, name, f>>]

\* ------------------------------------------------------------- stage 4
FrontendCoverage == 85
BackendCoverage == 90

\* result = {'passed': False, 'coverage': 0, 'output': ''}
DefaultResult == [passed |-> FALSE, coverage |-> 0, output |-> <<>>]

\* What happens to package.json in _test_frontend: it is absent, it is read,
\* updated and written back, or reading or writing it raises.
PackageOutcomes == {"absent", "updated", "raises"}

\* TestRunner._test_frontend: the result, and the files created (package.json
\* is rewritten in place). test_write: writing src/App.test.js succeeds.
test_frontend(test_write, package) ==
  IF ~test_write
  THEN [result |-> [DefaultResult EXCEPT
                      !.output = <<"Frontend test error: ", "write failed">>],
        files |-> {}]
  ELSE IF package = "raises"
  THEN [result |-> [DefaultResult EXCEPT
                      !.output = <<"Frontend test error: ", "package.json">>],
        files |-> {"frontend/src/App.test.js"}]
  ELSE [result |-> [passed |-> TRUE, coverage |-> FrontendCoverage,
                    output |-> <<"All frontend tests passed successfully!">>],
        files |-> {"frontend/src/App.test.js"}]

\* _test_backend with the simulated success moved out of the try block
test_backend_always_passes(test_write) ==
  [result |-> [passed |-> TRUE, coverage |-> BackendCoverage,
               output |-> <<"All backend tests passed successfully!">>],
   files |-> IF test_write THEN {"backend/server.test.js"} ELSE {}]

\* TestRunner._test_backend. test_write: writing server.test.js succeeds.
test_backend(test_write) ==
  IF ~test_write
  THEN [result |-> [DefaultResult EXCEPT
                      !.output = <<"Backend test error: ", "write failed">>],
        files |-> {}]
  ELSE [result |-> [passed |-> TRUE, coverage |-> BackendCoverage,
                    output |-> <<"All backend tests passed successfully!">>],
        files |-> {"backend/server.test.js"}]

\* run_tests that starts from an empty dict and whose helpers raise instead
\* of returning a default: a failing side ends the try block
run_tests_omits_failed(frontend_write, package, backend_write) ==
  LET frontend_result == test_frontend(frontend_write, package)
      backend_result == test_backend(backend_write)
      first == IF frontend_result.result.passed
               THEN [side \in {"frontend"} |-> frontend_result.result]
               ELSE EmptyDict
  IN [results |->
        IF frontend_result.result.passed /\ backend_result.result.passed
        THEN [side \in Sides |-> IF side = "frontend"
                                 THEN frontend_result.result
                                 ELSE backend_result.result]
        ELSE first,
      files |-> frontend_result.files \cup backend_result.files]

\* run_tests whose helpers let a failed write escape: the except block of
\* run_tests then leaves the defaults of the sides not yet stored
run_tests_aborts_on_failure(frontend_write, package, backend_write) ==
  LET results == [side \in Sides |-> DefaultResult]
      frontend_result == test_frontend(frontend_write, package)
      backend_result == test_backend(backend_write)
  IN IF ~frontend_result.result.passed
     THEN [results |-> results, files |-> frontend_result.files]
     ELSE IF ~backend_result.result.passed
     THEN [results |-> [results EXCEPT !["frontend"] = frontend_result.result],
           files |-> frontend_result.files \cup backend_result.files]
     ELSE [results |-> [results EXCEPT !["frontend"] = frontend_result.result,
                                       !["backend"] = backend_result.result],
           files |-> frontend_result.files \cup backend_result.files]

\* TestRunner.run_tests: results starts as the two defaults and each side is
\* replaced by what its helper returns (the helpers catch what they raise).
run_tests(frontend_write, package, backend_write) ==
  LET results == [side \in Sides |-> DefaultResult]
      frontend_result == test_frontend(frontend_write, package)
      backend_result == test_backend(backend_write)
  IN [results |-> [results EXCEPT !["frontend"] = frontend_result.result,
                                  !["backend"] = backend_result.result],
      files |-> frontend_result.files \cup backend_result.files]

\* ------------------------------------------------------------- stage 5
\* f"{project_name}-frontend", f"{project_name}-backend"
app_name(name, side) == <<name, "-", side>>

\* _deploy_frontend whose except block returns no URL
deploy_frontend_no_url_on_failure(name, config_write) ==
  IF config_write
  THEN [url |-> <<"https://">> \o name \o <<".vercel.app">>,
        files |-> {"frontend/vercel.json"}]
  ELSE [url |-> <<>>, files |-> {}]

\* AppDeployer._deploy_frontend: the URL returned and the files written.
\* config_write: writing vercel.json succeeds.
deploy_frontend(name, config_write) ==
  IF config_write
  THEN [url |-> <<"https://">> \o name \o <<".vercel.app">>,
        files |-> {"frontend/vercel.json"}]
  ELSE [url |-> <<"https://">> \o name \o <<".vercel.app">>, files |-> {}]

\* AppDeployer._deploy_backend. docker_write, config_write: writing the
\* Dockerfile, then railway.json, succeeds.
deploy_backend(name, docker_write, config_write) ==
  IF docker_write /\ config_write
  THEN [url |-> <<"https://">> \o name \o <<".railway.app">>,
        files |-> {"backend/Dockerfile", "backend/railway.json"}]
  ELSE [url |-> <<"https://">> \o name \o <<".railway.app">>,
        files |-> IF docker_write THEN {"backend/Dockerfile"} ELSE {}]

\* urls[key] = value on a dict
put(dict, key, value) ==
  [k \in DOMAIN dict \cup {key} |-> IF k = key THEN value ELSE dict[k]]

\* deploy_app whose helpers let a failed write escape: the except block of
\* deploy_app then returns the entries set so far
deploy_app_helpers_raise(name, vercel_write, docker_write, railway_write) ==
  LET frontend == deploy_frontend(app_name(name, "frontend"), vercel_write)
      backend == deploy_backend(app_name(name, "backend"), docker_write,
                                railway_write)
      first == put(EmptyDict, "frontend", frontend.url)
  IN [urls |-> IF ~vercel_write THEN EmptyDict
               ELSE IF ~(docker_write /\ railway_write) THEN first
               ELSE put(first, "backend", backend.url),
      files |-> frontend.files \cup backend.files]

\* AppDeployer.deploy_app: urls starts empty and gets one entry per side
\* (the helpers catch what they raise).
deploy_app(name, vercel_write, docker_write, railway_write) ==
  LET frontend == deploy_frontend(app_name(name, "frontend"), vercel_write)
      backend == deploy_backend(app_name(name, "backend"), docker_write,
                                railway_write)
  IN [urls |-> put(put(EmptyDict, "frontend", frontend.url),
                   "backend", backend.url),
      files |-> frontend.files \cup backend.files]

\* ------------------------------------------------------------- stage 6
manual_hours == 40
developer_rate == 150

\* dict.get(key, default)
get(dict, key, default) == IF key \in DOMAIN dict THEN dict[key] ELSE default

\* the metrics with the average taken by integer division
report_metrics_floor_average(st) ==
  LET execution_time == get(st.metrics, "execution_time", 0)
      frontend_coverage ==
        get(get(st.test_results, "frontend", EmptyDict), "coverage", 0)
      backend_coverage ==
        get(get(st.test_results, "backend", EmptyDict), "coverage", 0)
      time_saved_x3600 == manual_hours * 3600 - execution_time
  IN [execution_time |-> execution_time,
      time_saved_x3600 |-> time_saved_x3600,
      cost_saved_x3600 |-> time_saved_x3600 * developer_rate,
      frontend_coverage |-> frontend_coverage,
      backend_coverage |-> backend_coverage,
      avg_coverage_x2 |-> 2 * ((frontend_coverage + backend_coverage) \div 2)]

\* The metrics _create_report_content derives. Seconds and percentages are
\* integers here, so a quotient is kept as its numerator: time_saved_x3600 is
\* 3600 * time_saved_hours, cost_saved_x3600 is 3600 * cost_saved and
\* avg_coverage_x2 is 2 * avg_coverage.
report_metrics(st) ==
  LET execution_time == get(st.metrics, "execution_time", 0)
      frontend_coverage ==
        get(get(st.test_results, "frontend", EmptyDict), "coverage", 0)
      backend_coverage ==
        get(get(st.test_results, "backend", EmptyDict), "coverage", 0)
      time_saved_x3600 == manual_hours * 3600 - execution_time
  IN [execution_time |-> execution_time,
      time_saved_x3600 |-> time_saved_x3600,
      cost_saved_x3600 |-> time_saved_x3600 * developer_rate,
      frontend_coverage |-> frontend_coverage,
      backend_coverage |-> backend_coverage,
      avg_coverage_x2 |-> frontend_coverage + backend_coverage]

\* ReportGenerator._create_report_content: the metrics rendered into the
\* report; the ROI line raises ZeroDivisionError when execution_time is 0.
create_report_content(st) ==
  [raised |-> report_metrics(st).execution_time = 0,
   content |-> report_metrics(st)]

\* ReportGenerator.generate_report: the path returned ("" on failure), the
\* files written with the content of the report, and the messages logged.
\* write_ok: writing the file succeeds.
generate_report(st, output_path, write_ok) ==
  IF ~create_report_content(st).raised /\ write_ok
  THEN [path |-> output_path, files |-> {output_path},
        report |-> <<create_report_content(st).content>>,
        log |-> {"Report generated"}]
  ELSE [path |-> "", files |-> {}, report |-> <<>>,
        log |-> {"Report generation failed"}]

\* ------------------------------------------------------------- state
VARIABLES
  pc,            \* position of the process: main, the stages of run, exit
  exit_code,     \* the status the process exited with, -1 while running
  file_exists,   \* os.path.exists(file)
  is_txt,        \* file.endswith('.txt')
  file_content,  \* the characters of the input file when it is a text file
  api_key,       \* OPENAI_API_KEY is set
  whisper,       \* the whisper module was imported
  project_name,  \* --project-name
  now,           \* time.time()
  start_time,    \* self.start_time
  model,         \* self.transcriber.model
  state,         \* self.state
  written,       \* the fields of self.state assigned during run so far
  responses,     \* what the language model answered, prompt by prompt
  files,         \* the files written under the output directory
  report_path,   \* what generate_report returned, "unset" before stage 6
  report,        \* the content of report.md, <<>> while it is not written
  invoked,       \* the stage methods run has called, in order
  log            \* the messages passed to log_step

env == <<file_exists, is_txt, file_content, api_key, whisper, project_name>>

vars == <<pc, exit_code, env, now, start_time, model, state, written,
          responses, files, report_path, report, invoked, log>>

\* the number of prompts issued to the language model
llm_calls == Len(responses)

\* self.state as __init__ builds it
InitialState ==
  [transcript |-> <<>>,
   user_stories |-> List(<<>>),
   architecture |-> "",
   generated_code |-> EmptyDict,
   test_results |-> EmptyDict,
   deployment_urls |-> EmptyDict,
   metrics |-> EmptyDict]

Fields == DOMAIN InitialState

\* self.state[field] = value, noting the assignment
store(sw, field, value) ==
  [state |-> [sw.state EXCEPT ![field] = value],
   written |-> sw.written \cup {field}]

ReportFile == "report.md"

Init ==
  /\ pc = "main"
  /\ exit_code = -1
  /\ file_exists \in BOOLEAN
  /\ is_txt \in BOOLEAN
  /\ file_content \in (IF is_txt THEN Texts ELSE {<<>>})
  /\ api_key \in BOOLEAN
  /\ whisper \in BOOLEAN
  /\ project_name \in ProjectNames
  /\ now = 0
  /\ start_time = 0
  /\ model = "None"
  /\ state = InitialState
  /\ written = {}
  /\ responses = <<>>
  /\ files = {}
  /\ report_path = "unset"
  /\ report = <<>>
  /\ invoked = <<>>
  /\ log = {}

\* main without the test of the credential
MainValidate_ignores_key ==
  /\ pc = "main"
  /\ IF ~file_exists
     THEN pc' = "exit" /\ exit_code' = 1
     ELSE pc' = "construct" /\ UNCHANGED exit_code
  /\ UNCHANGED <<env, now, start_time, model, state, written, responses,
                 files, report_path, log, report, invoked>>

\* main: the two validations, each exiting with status 1
MainValidate ==
  /\ pc = "main"
  /\ IF ~file_exists \/ ~api_key
     THEN pc' = "exit" /\ exit_code' = 1
     ELSE pc' = "construct" /\ UNCHANGED exit_code
  /\ UNCHANGED <<env, now, start_time, model, state, written, responses,
                 files, report_path, log,
                 report, invoked>>

\* __init__ that takes start_time after the components are built
Construct_start_after_build ==
  /\ pc = "construct"
  /\ start_time' = now + 1
  /\ now' = now + 1
  /\ model' = "None"
  /\ state' = InitialState
  /\ pc' = "step1"
  /\ UNCHANGED <<exit_code, env, written, responses, files, report_path, log,
                 report, invoked>>

\* ZoomToAppPipeline.__init__: start_time is taken before the components are
\* built, which takes one unit of time.
Construct ==
  /\ pc = "construct"
  /\ start_time' = now
  /\ now' = now + 1
  /\ model' = "None"
  /\ state' = InitialState
  /\ pc' = "step1"
  /\ UNCHANGED <<exit_code, env, written, responses, files, report_path, log,
                 report, invoked>>

\* The time stage 2 takes, in units of the clock: the two prompts take up to
\* one unit, the other stages less than the clock resolves.
Elapse ==
  \E d \in 0..1 : now' = now + d

\* the assignments of run, stage by stage
assign1(sw, transcript) == store(sw, "transcript", transcript)

assign2(sw, stories_result) ==
  store(store(sw, "user_stories", stories_result.stories),
        "architecture", stories_result.architecture)

assign3(sw, generated) == store(sw, "generated_code", generated)

\* stage 4 that also clears the transcript
assign4_resets_transcript(sw, results) ==
  store(store(sw, "test_results", results), "transcript", <<>>)

assign4(sw, results) == store(sw, "test_results", results)

assign5(sw, urls) == store(sw, "deployment_urls", urls)

\* self.state['metrics']['execution_time'] = execution_time
assign6(sw, execution_time) ==
  store(sw, "metrics", put(sw.state.metrics, "execution_time", execution_time))

SW == [state |-> state, written |-> written]

\* run, step 1: transcription
Step1 ==
  /\ pc = "step1"
  /\ \E load_ok \in BOOLEAN, read_ok \in BOOLEAN, speech \in SpeechOutcomes :
       LET r == transcribe(model, is_txt, file_content, whisper, load_ok,
                           read_ok, speech)
           sw == assign1(SW, r.transcript)
       IN /\ state' = sw.state
          /\ written' = sw.written
          /\ model' = r.model
          /\ log' = log \cup r.log
  /\ invoked' = Append(invoked, "transcribe")
  /\ pc' = "step2"
  /\ UNCHANGED <<exit_code, env, now, start_time, responses, files, report_path,
                 report>>

\* run, step 2: story generation
Step2 ==
  /\ pc = "step2"
  /\ \E stories_response \in StoriesResponses, arch_response \in ArchResponses :
       LET r == generate_stories(stories_response, arch_response)
           sw == assign2(SW, r)
       IN /\ state' = sw.state
          /\ written' = sw.written
          /\ responses' = SubSeq(<<stories_response, arch_response>>, 1, r.calls)
          /\ log' = log \cup r.log
  /\ Elapse
  /\ invoked' = Append(invoked, "generate_stories")
  /\ pc' = "step3"
  /\ UNCHANGED <<exit_code, env, start_time, model, files, report_path,
                 report>>

\* run with the tests started before the code is generated
Step3_runs_tests_first ==
  /\ pc = "step3"
  /\ \E frontend_write \in BOOLEAN, package \in PackageOutcomes,
        backend_write \in BOOLEAN :
       LET r == run_tests(frontend_write, package, backend_write)
           sw == assign4(SW, r.results)
       IN /\ state' = sw.state
          /\ written' = sw.written
          /\ files' = files \cup r.files
  /\ invoked' = Append(invoked, "run_tests")
  /\ pc' = "step4"
  /\ UNCHANGED <<exit_code, env, now, start_time, model, responses,
                 report_path, log, report>>

\* run, step 3: code generation returns the generated files
Step3 ==
  /\ pc = "step3"
  /\ LET generated == generate_app(state.user_stories, project_name, "output")
         sw == assign3(SW, generated)
     IN /\ state' = sw.state
        /\ written' = sw.written
        /\ files' = files \cup DOMAIN generated
  /\ invoked' = Append(invoked, "generate_app")
  /\ pc' = "step4"
  /\ UNCHANGED <<exit_code, env, now, start_time, model, responses, report_path, log,
                 report>>

\* an except block that logs the failure and lets run go on
Step3Raises_swallowed ==
  /\ pc = "step3"
  /\ log' = log \cup {"Pipeline failed"}
  /\ invoked' = Append(invoked, "generate_app")
  /\ pc' = "step4"
  /\ UNCHANGED <<exit_code, env, now, start_time, model, state, written,
                 responses, files, report_path, report>>

\* run, step 3 when the code generator raises: the except block of run logs
\* and raises again
Step3Raises ==
  /\ pc = "step3"
  /\ log' = log \cup {"Pipeline failed"}
  /\ invoked' = Append(invoked, "generate_app")
  /\ pc' = "raised"
  /\ UNCHANGED <<exit_code, env, now, start_time, model, state, written,
                 responses, files, report_path,
                 report>>

\* run, step 4: tests
Step4 ==
  /\ pc = "step4"
  /\ \E frontend_write \in BOOLEAN, package \in PackageOutcomes,
        backend_write \in BOOLEAN :
       LET r == run_tests(frontend_write, package, backend_write)
           sw == assign4(SW, r.results)
       IN /\ state' = sw.state
          /\ written' = sw.written
          /\ files' = files \cup r.files
  /\ invoked' = Append(invoked, "run_tests")
  /\ pc' = "step5"
  /\ UNCHANGED <<exit_code, env, now, start_time, model, responses, report_path, log,
                 report>>

\* run, step 5: deployment
Step5 ==
  /\ pc = "step5"
  /\ \E vercel_write \in BOOLEAN, docker_write \in BOOLEAN,
        railway_write \in BOOLEAN :
       LET r == deploy_app(project_name, vercel_write, docker_write,
                           railway_write)
           sw == assign5(SW, r.urls)
       IN /\ state' = sw.state
          /\ written' = sw.written
          /\ files' = files \cup r.files
  /\ invoked' = Append(invoked, "deploy_app")
  /\ pc' = "step6"
  /\ UNCHANGED <<exit_code, env, now, start_time, model, responses, report_path, log,
                 report>>

\* run, step 6: the execution time, the report, the completion messages and
\* the return of self.state
Step6 ==
  /\ pc = "step6"
  /\ \E write_ok \in BOOLEAN :
       LET sw == assign6(SW, now - start_time)
           r == generate_report(sw.state, ReportFile, write_ok)
       IN /\ state' = sw.state
          /\ written' = sw.written
          /\ files' = files \cup r.files
          /\ report_path' = r.path
          /\ report' = r.report
          /\ log' = log \cup r.log \cup {"Pipeline completed successfully"}
  /\ invoked' = Append(invoked, "generate_report")
  /\ pc' = "returned"
  /\ UNCHANGED <<exit_code, env, now, start_time, model, responses>>

\* main after run returned: the success messages, exit status 0
MainSuccess ==
  /\ pc = "returned"
  /\ pc' = "exit"
  /\ exit_code' = 0
  /\ UNCHANGED <<env, now, start_time, model, state, written, responses,
                 files, report_path, log,
                 report, invoked>>

\* main when run raised: the failure message, sys.exit(1)
MainFailure ==
  /\ pc = "raised"
  /\ pc' = "exit"
  /\ exit_code' = 1
  /\ UNCHANGED <<env, now, start_time, model, state, written, responses,
                 files, report_path, log,
                 report, invoked>>

Next ==
  \/ MainValidate
  \/ Construct
  \/ Step1
  \/ Step2
  \/ Step3
  \/ Step3Raises
  \/ Step4
  \/ Step5
  \/ Step6
  \/ MainSuccess
  \/ MainFailure

Spec == Init /\ [][Next]_vars

\* ------------------------------------------------------------- claims
Stage1Done == "transcript" \in written
Stage2Done == "user_stories" \in written
Stage4Done == "test_results" \in written
Stage5Done == "deployment_urls" \in written

IsNonEmptyList(j) == j.t = "list" /\ Len(j.v) > 0

\* C1: once stage 2 has completed, and still in the state run returns,
\* user_stories is a non-empty list, whatever the language model answered.
C1_StoriesNonEmpty ==
  Stage2Done => IsNonEmptyList(state.user_stories)

SuccessResult(side) ==
  IF side = "frontend"
  THEN [passed |-> TRUE, coverage |-> 85,
        output |-> <<"All frontend tests passed successfully!">>]
  ELSE [passed |-> TRUE, coverage |-> 90,
        output |-> <<"All backend tests passed successfully!">>]

ErrorPrefix(side) ==
  IF side = "frontend" THEN "Frontend test error: " ELSE "Backend test error: "

TestFile(side) ==
  IF side = "frontend" THEN "frontend/src/App.test.js"
  ELSE "backend/server.test.js"

IsErrorResult(side, r) ==
  /\ r.passed = FALSE
  /\ r.coverage = 0
  /\ Len(r.output) = 2
  /\ r.output[1] = ErrorPrefix(side)

\* C2 as stated: every invocation of run_tests reports success for both
\* sides, with coverage 85 and 90 and the fixed messages, whatever the
\* outcome of the writes.
C2_AlwaysSuccess ==
  Stage4Done => \A side \in Sides : state.test_results[side] = SuccessResult(side)

\* C2 as amended: each side's result is the fixed success result (passed,
\* coverage 85 for frontend and 90 for backend, the fixed message) unless a
\* write of that side raised, and then it is passed = false, coverage = 0 with
\* the error message in output. A side whose test file was not written never
\* reports success, and a backend whose test file was written always does.
C2_SuccessUnlessWriteFails ==
  Stage4Done =>
    /\ \A side \in Sides :
         /\ \/ state.test_results[side] = SuccessResult(side)
            \/ IsErrorResult(side, state.test_results[side])
         /\ TestFile(side) \notin files
              => IsErrorResult(side, state.test_results[side])
    /\ TestFile("backend") \in files
         => state.test_results["backend"] = SuccessResult("backend")

C2_Witness ==
  /\ Stage4Done
  /\ TestFile("backend") \notin files
  /\ TestFile("frontend") \in files
  /\ state.test_results["frontend"].passed
  /\ ~state.test_results["backend"].passed

\* C3: when run returns the pipeline state, the report has been written to
\* report.md, whatever failed inside the stages.
C3_ReportWritten ==
  pc = "returned" => ReportFile \in files

AllWhitespace(s) == \A i \in 1..Len(s) : s[i] \in {" "}

\* t is c without its leading and trailing whitespace
IsStripped(t, c) ==
  /\ \E i \in 0..Len(c) : \E j \in 0..(Len(c) - i) :
       /\ AllWhitespace(SubSeq(c, 1, i))
       /\ AllWhitespace(SubSeq(c, Len(c) - j + 1, Len(c)))
       /\ t = SubSeq(c, i + 1, Len(c) - j)
  /\ t # <<>> => t[1] # " " /\ t[Len(t)] # " "

\* C4 as stated: for a .txt input the transcript is the content of the file,
\* character for character.
C4_Verbatim ==
  (is_txt /\ Stage1Done) => state.transcript = file_content

\* C4 as amended: for a .txt input, when neither loading the speech model nor
\* reading the file raises, the transcript is the content of the file without
\* its leading and trailing whitespace, or the fixed sample transcript when
\* nothing is left, whether or not the speech library is available; when the
\* load or the read raises, it is the fixed fallback transcript.
C4_StrippedContent ==
  (is_txt /\ Stage1Done) =>
    IF "Transcription failed" \in log
    THEN state.transcript = FallbackTranscript
    ELSE \/ IsStripped(state.transcript, file_content)
            /\ state.transcript # <<>>
         \/ IsStripped(<<>>, file_content)
            /\ state.transcript = SampleTranscript

C4_Witness ==
  /\ is_txt
  /\ Stage1Done
  /\ whisper
  /\ model = "model"
  /\ "Transcription failed" \notin log
  /\ Len(file_content) = 2
  /\ Len(state.transcript) = 1

\* the stories response is not the requested JSON object with a stories list
NotRequestedJson(content) ==
  ~(content.k = "object" /\ content.has /\ content.stories.t = "list")

\* C5: when both prompts return and the stories response is not parseable as
\* the requested JSON object with a 'stories' list, user_stories is the
\* 6-item fallback list and architecture is the text of the architecture
\* response.
C5_MalformedGivesFallbackStories ==
  (/\ Stage2Done
   /\ Len(responses) = 2
   /\ ~responses[1].raised
   /\ ~responses[2].raised
   /\ NotRequestedJson(responses[1].content))
  => /\ state.user_stories = FallbackStories
     /\ state.architecture = responses[2].content

\* C6: after a run on a .txt input user_stories has between 5 and 7 entries
\* or is the 6 fallback strings.
C6_StoryCount ==
  (pc = "returned" /\ is_txt) =>
    \/ state.user_stories = FallbackStories
    \/ /\ state.user_stories.t = "list"
       /\ Len(state.user_stories.v) \in 5..7

StageStep == pc \in {"step1", "step2", "step3", "step4", "step5", "step6"}
             /\ pc' # "raised"

Frozen == \A f \in written : state'[f] = state[f]

\* C7 as stated: each of the six stages writes exactly one field of the
\* pipeline state and changes no field written before.
C7_OneFieldPerStage ==
  [][StageStep => Cardinality(written' \ written) = 1 /\ Frozen]_vars

StageFields(p) ==
  CASE p = "step1" -> {"transcript"}
    [] p = "step2" -> {"user_stories", "architecture"}
    [] p = "step3" -> {"generated_code"}
    [] p = "step4" -> {"test_results"}
    [] p = "step5" -> {"deployment_urls"}
    [] p = "step6" -> {"metrics"}

\* C7 as amended: stage 2 writes two fields (user_stories and architecture)
\* and each other stage exactly one (transcript, generated_code,
\* test_results, deployment_urls, metrics); no stage changes a field written
\* before, and what a stage does not write keeps its value.
C7_StageWritesItsFields ==
  [][StageStep =>
       /\ written' \ written = StageFields(pc)
       /\ written \subseteq written'
       /\ Frozen
       /\ \A f \in Fields \ StageFields(pc) : state'[f] = state[f]]_vars

C7_Witness ==
  /\ pc = "returned"
  /\ written = Fields
  /\ state.transcript # <<>>
  /\ state.architecture # ""

\* C8: after stage 4 test_results has exactly the keys frontend and backend,
\* each with a boolean passed and a coverage between 0 and 100.
C8_TestResultsShape ==
  Stage4Done =>
    /\ DOMAIN state.test_results = {"frontend", "backend"}
    /\ \A side \in DOMAIN state.test_results :
         /\ state.test_results[side].passed \in BOOLEAN
         /\ state.test_results[side].coverage \in 0..100

C8_Witness ==
  /\ Stage4Done
  /\ TestFile("frontend") \notin files
  /\ ~state.test_results["frontend"].passed
  /\ state.test_results["backend"].passed

\* C9: after stage 5 deployment_urls has exactly the keys frontend and
\* backend, whether the writes of the deployment files succeeded or failed.
C9_DeploymentKeys ==
  Stage5Done => DOMAIN state.deployment_urls = {"frontend", "backend"}

C9_Witness ==
  /\ Stage5Done
  /\ "frontend/vercel.json" \notin files
  /\ "backend/Dockerfile" \in files
  /\ "backend/railway.json" \notin files
  /\ DOMAIN state.deployment_urls = {"frontend", "backend"}

Platform(side) == IF side = "frontend" THEN ".vercel.app" ELSE ".railway.app"

\* C10: every URL in deployment_urls is built from the project name alone,
\* https://{project_name}-frontend.vercel.app and
\* https://{project_name}-backend.railway.app, also when the write of that
\* side's configuration failed.
C10_UrlTemplate ==
  Stage5Done =>
    \A side \in DOMAIN state.deployment_urls :
      state.deployment_urls[side] =
        <<"https://", project_name, "-", side, Platform(side)>>

C10_Witness ==
  /\ Stage5Done
  /\ project_name = "demo-todo-app"
  /\ "frontend/vercel.json" \notin files
  /\ "backend/Dockerfile" \notin files
  /\ state.deployment_urls["frontend"]
       = <<"https://", "demo-todo-app", "-", "frontend", ".vercel.app">>
  /\ state.deployment_urls["backend"]
       = <<"https://", "demo-todo-app", "-", "backend", ".railway.app">>

AfterStage1 ==
  pc \in {"step2", "step3", "step4", "step5", "step6", "returned", "raised"}

FixedTranscripts == {SampleTranscript, FallbackTranscript}

NoOuterWhitespace(t) == t # <<>> /\ t[1] # " " /\ t[Len(t)] # " "

\* C11: transcribe never raises and never returns an empty transcript: run
\* always gets past stage 1 with a non-empty transcript, which is the fixed
\* todo-app transcript when the speech backend is unavailable or raises, when
\* the text is empty, or when the text file is empty or unreadable, and the
\* stripped text otherwise.
C11_TranscriptNeverEmpty ==
  /\ AfterStage1 => Stage1Done
  /\ pc = "raised" => Stage2Done
  /\ Stage1Done =>
       /\ state.transcript # <<>>
       /\ "Transcription failed" \in log => state.transcript \in FixedTranscripts
       /\ (~is_txt /\ ~whisper) => state.transcript \in FixedTranscripts
       /\ (is_txt /\ AllWhitespace(file_content))
            => state.transcript \in FixedTranscripts
       /\ state.transcript \notin FixedTranscripts
            => /\ NoOuterWhitespace(state.transcript)
               /\ is_txt => IsStripped(state.transcript, file_content)
               /\ ~is_txt => model = "model"

C11_Witness ==
  /\ Stage1Done
  /\ ~is_txt
  /\ whisper
  /\ model = "model"
  /\ "Transcription failed" \notin log
  /\ state.transcript = SampleTranscript

\* C12: when the language model raises, generate_stories does not raise and
\* returns the fixed fallback architecture and the fixed 6-item fallback list,
\* which run stores in architecture and user_stories.
C12_BackendFailureFallsBack ==
  (Stage2Done /\ responses[1].raised) =>
    /\ state.architecture = "## System Architecture ... Backend: Railway/Heroku"
    /\ state.user_stories.t = "list"
    /\ Len(state.user_stories.v) = 6
    /\ state.user_stories = FallbackStories
    /\ "Story generation failed" \in log
    /\ pc # "step2"

C12_Witness ==
  /\ pc = "returned"
  /\ responses[1].raised
  /\ state.user_stories = FallbackStories
  /\ state.architecture = FallbackArchitecture

StageOrder ==
  <<"transcribe", "generate_stories", "generate_app", "run_tests",
    "deploy_app", "generate_report">>

\* the state fields that stage n of run assigns
FieldsOfStage(n) == StageFields(<<"step1", "step2", "step3", "step4",
                                  "step5", "step6">>[n])

IsPrefix(s, t) == Len(s) <= Len(t) /\ s = SubSeq(t, 1, Len(s))

\* C13: the stages are invoked in the order transcribe, generate_stories,
\* generate_app, run_tests, deploy_app, generate_report, each at most once and
\* none before the one before it has returned; a state field is written only
\* when its stage has been invoked, and the field of stage n+1 still has its
\* initial empty value unless the fields of stage n have been written.
C13_StrictOrder ==
  /\ IsPrefix(invoked, StageOrder)
  /\ \A n \in 1..6 : \A f \in FieldsOfStage(n) :
       /\ f \in written => n <= Len(invoked)
       /\ f \notin written => state[f] = InitialState[f]
  /\ \A n \in 1..5 : \A f \in FieldsOfStage(n + 1) :
       state[f] # InitialState[f] => FieldsOfStage(n) \subseteq written

C13_Witness ==
  /\ pc = "step5"
  /\ invoked = <<"transcribe", "generate_stories", "generate_app", "run_tests">>
  /\ state.test_results # EmptyDict
  /\ state.deployment_urls = EmptyDict

\* the state in which a raise of stage 3 leaves the process
AbortedAtStage3 ==
  /\ pc \in {"raised", "exit"}
  /\ pc = "exit" => exit_code = 1
  /\ invoked = <<"transcribe", "generate_stories", "generate_app">>
  /\ ReportFile \notin files
  /\ report = <<>>
  /\ report_path = "unset"
  /\ written = {"transcript", "user_stories", "architecture"}
  /\ state.transcript # <<>>
  /\ \A n \in 3..6 : \A f \in FieldsOfStage(n) : state[f] = InitialState[f]

\* C14: when a stage raises, run aborts and the exception reaches the caller
\* (main exits with status 1): no later stage is invoked, no report is
\* written, the fields of the raising stage and of the later stages keep their
\* initial values and the fields written before keep theirs.
C14_RaiseAborts ==
  /\ []("Pipeline failed" \in log => AbortedAtStage3)
  /\ [][pc' = "raised" =>
          /\ "Pipeline failed" \in log'
          /\ state' = state
          /\ written' = written
          /\ files' = files]_vars
  /\ [][pc = "raised" =>
          /\ pc' = "exit"
          /\ exit_code' = 1
          /\ state' = state
          /\ invoked' = invoked
          /\ files' = files]_vars

C14_Witness ==
  /\ pc = "exit"
  /\ exit_code = 1
  /\ "Pipeline failed" \in log
  /\ state.user_stories = FallbackStories
  /\ state.generated_code = EmptyDict
  /\ invoked = <<"transcribe", "generate_stories", "generate_app">>

\* C15: when the input path does not exist or the credential is missing, the
\* process exits with status 1 before the pipeline is constructed, and no
\* stage is ever invoked.
C15_ValidationExits ==
  (~file_exists \/ ~api_key) =>
    /\ pc \in {"main", "exit"}
    /\ pc = "exit" => exit_code = 1
    /\ pc = "main" => exit_code = -1
    /\ invoked = <<>>
    /\ now = 0
    /\ state = InitialState
    /\ written = {}
    /\ files = {}
    /\ log = {}

C15_Witness ==
  /\ file_exists
  /\ ~api_key
  /\ pc = "exit"
  /\ exit_code = 1
  /\ invoked = <<>>

OtherSide(side) == IF side = "frontend" THEN "backend" ELSE "frontend"

\* C16: when writing the test file of one side fails the test runner does not
\* raise: that side's result is passed = false, coverage = 0 with the error
\* message in output, the other side's result does not depend on that failure
\* (the backend still reports success when its own file was written, the
\* frontend still reports the result of its own writes), and run goes on to
\* stage 5 and stage 6.
C16_WriteFailureContained ==
  Stage4Done =>
    /\ \A side \in Sides :
         TestFile(side) \notin files =>
           /\ state.test_results[side].passed = FALSE
           /\ state.test_results[side].coverage = 0
           /\ Len(state.test_results[side].output) = 2
           /\ state.test_results[side].output[1] = ErrorPrefix(side)
           /\ state.test_results[OtherSide(side)].output # <<>>
    /\ TestFile("backend") \in files
         => state.test_results["backend"].passed
    /\ state.test_results["frontend"].passed
         => TestFile("frontend") \in files
    /\ pc \in {"step5", "step6", "returned", "exit"}
    /\ "Pipeline failed" \notin log
    /\ pc # "step5" => SubSeq(invoked, 1, 5) = SubSeq(StageOrder, 1, 5)
    /\ pc \in {"returned", "exit"} => invoked = StageOrder
    /\ pc = "exit" => exit_code = 0

C16_Witness ==
  /\ pc = "returned"
  /\ TestFile("frontend") \notin files
  /\ TestFile("backend") \in files
  /\ state.test_results["frontend"].output
       = <<"Frontend test error: ", "write failed">>
  /\ state.test_results["backend"].passed
  /\ state.test_results["backend"].coverage = 90
  /\ invoked = StageOrder

\* C17: the metrics of the report are those the formulas give on the pipeline
\* state: 2 * avgCoverage = frontend + backend coverage of test_results,
\* timeSavedHours = 40 - execution_time / 3600 (here times 3600) and
\* costSaved = timeSavedHours * 150.
C17_MetricsFromState ==
  report # <<>> =>
    /\ report[1].execution_time = state.metrics["execution_time"]
    /\ report[1].avg_coverage_x2
         = state.test_results["frontend"].coverage
           + state.test_results["backend"].coverage
    /\ report[1].time_saved_x3600
         = 40 * 3600 - state.metrics["execution_time"]
    /\ report[1].cost_saved_x3600 = report[1].time_saved_x3600 * 150

C17_Witness ==
  /\ report # <<>>
  /\ state.metrics["execution_time"] = 2
  /\ state.test_results["frontend"].coverage = 85
  /\ state.test_results["backend"].coverage = 90
  /\ report[1].avg_coverage_x2 = 175
  /\ report[1].cost_saved_x3600 = 143998 * 150

RunReturned == pc = "returned" \/ (pc = "exit" /\ exit_code = 0)

\* C18: metrics.execution_time is written once per run, in stage 6 after
\* stage 5 has returned and before the report is generated; its value is the
\* time elapsed since the construction of the pipeline, which started before
\* run was called; every state run returns contains it.
C18_ExecutionTime ==
  /\ pc = "step1" => start_time < now
  /\ "metrics" \in written <=> Len(invoked) = 6
  /\ "metrics" \notin written => state.metrics = EmptyDict
  /\ "metrics" \in written => Stage5Done
  /\ RunReturned =>
       /\ DOMAIN state.metrics = {"execution_time"}
       /\ state.metrics["execution_time"] = now - start_time
       /\ state.metrics["execution_time"] >= 1
       /\ report # <<>>
            => report[1].execution_time = state.metrics["execution_time"]

C18_Witness ==
  /\ pc = "returned"
  /\ start_time = 0
  /\ now = 2
  /\ state.metrics["execution_time"] = 2
  /\ report # <<>>

SomePromptRaised == \E i \in 1..Len(responses) : responses[i].raised

\* C19: the two prompts are not handled independently: when either prompt
\* raises, both fields are the fallback, so stories obtained before the
\* architecture prompt raised are discarded; when the stories prompt raises,
\* the architecture prompt is never issued.
C19_PromptsNotIndependent ==
  Stage2Done =>
    /\ Len(responses) \in {1, 2}
    /\ Len(responses) = 1 <=> responses[1].raised
    /\ SomePromptRaised =>
         /\ state.user_stories = FallbackStories
         /\ state.architecture = FallbackArchitecture

C19_Witness ==
  /\ Stage2Done
  /\ Len(responses) = 2
  /\ ~responses[1].raised
  /\ responses[1].content.k = "object"
  /\ responses[1].content.has
  /\ responses[1].content.stories.t = "list"
  /\ Len(responses[1].content.stories.v) = 5
  /\ responses[2].raised
  /\ state.user_stories = FallbackStories
  /\ state.architecture = FallbackArchitecture

====
